---- MODULE Spec2Model ----
(***************************************************************************)
(* TheChase POS: the cart held in the Streamlit session state and the      *)
(* checkout transaction of modules/pos.py, run by one or two tills against *)
(* one PostgreSQL database (READ COMMITTED, the engine default).           *)
(*                                                                         *)
(* Money: product prices are NUMERIC(12,2) columns, held here in cents.    *)
(* The cart keeps float(price); a float is modelled as the nearest         *)
(* multiple of 1/FScale (a binary grid, coarser than a double), and a      *)
(* NUMERIC(x,2) column rounds what it is given to the nearest cent.        *)
(***************************************************************************)
EXTENDS Integers, Sequences, FiniteSets, TLC

\* ---- bounds of the model ------------------------------------------------
MaxQty == 2
MaxCartQty == 3
MaxOrders == 2
InitStock == 1
ConcMaxQty == 1
NumRefs == 2
OfficeMaxOrders == 1

\* ---- fixed sets -----------------------------------------------------------
Terminals == {1, 2}
\* the till the single-till specification drives
Till == CHOOSE t \in Terminals : \A u \in Terminals : t <= u
\* the product ids of the catalogue the tills sell from
Products == {1, 2}
Refs == 1..NumRefs

\* the preference selectbox of render_cart_section
PrefOptions == {"Warm", "Cold", "Mixer", "Standard"}

\* the options the operator of the model picks
Prefs == {"Warm", "Cold"}

default_pref == "Warm"

\* the currency radio of render_header and the initial currency_code
CurrencyOptions == {"KES", "UGX"}
InitialCurrency == "KES"

\* models.Currency, the enum type of orders.currency / transactions.currency
Currency == {"KSH", "UGX"}

FScale == 1024

\* float(x) of a NUMERIC(12,2) value given in cents: nearest grid point
Float(cents) == (cents * FScale + 50) \div 100

\* a NUMERIC(x,2) column storing Decimal(f): rounded to the nearest cent
Numeric2(f) == (f \div FScale) * 100 + (((f % FScale) * 100 + FScale \div 2) \div FScale)

\* the products table (prices in cents)
PriceKshCents(p) == IF p = 1 THEN 100000 ELSE 2500 * p + 10
PriceUgxCents(p) == IF p = 1 THEN 200000 ELSE 6000 * p + 5

\* the users table the tills may run against
UserPool == {[id |-> 1, role |-> "cashier", is_active |-> FALSE],
             [id |-> 2, role |-> "cashier", is_active |-> TRUE],
             [id |-> 3, role |-> "admin", is_active |-> TRUE]}

NoUser == 0

VARIABLES
    users,              \* users table
    products,           \* products table: p -> prices
    inventory,          \* inventory table: product_id -> quantity_on_hand
    orders,             \* orders table (committed rows, in commit order)
    transactions,       \* transactions table
    order_items,        \* order_items table
    transaction_items,  \* transaction_items table
    seq_orders,         \* orders.id sequence (never rolled back)
    seq_txns,           \* transactions.id sequence
    inv0,               \* the stock the run started with (history)
    cart,               \* st.session_state.cart of each till
    currency_code,      \* st.session_state.currency_code of each till
    user_id,            \* st.session_state.get('user_id') of each till
    pc,                 \* where each till is inside process_checkout
    sess,               \* the SQLAlchemy session of the running page
    call,               \* the running call: entry snapshot and result
    op,                 \* the last cart operation of each till (history)
    current_user,       \* st.session_state.current_user of each till (app.py)
    selection,          \* the page the navigation radio of each till shows
    office              \* the session of the running back-office page

vars == <<users, products, inventory, orders, transactions, order_items,
          transaction_items, seq_orders, seq_txns, inv0, cart, currency_code,
          user_id, pc, sess, call, op, current_user, selection, office>>

\* the state of app.py and of the back-office pages
officeVars == <<current_user, selection, office>>

dbVars == <<users, products, inventory, orders, transactions, order_items,
            transaction_items, seq_orders, seq_txns, inv0>>

\* ---- helpers --------------------------------------------------------------
Min(S) == CHOOSE x \in S : \A y \in S : x <= y

RECURSIVE SumSeq(_)
SumSeq(s) == IF s = <<>> THEN 0 ELSE Head(s) + SumSeq(Tail(s))

Range(s) == {s[i] : i \in 1..Len(s)}

\* committed rows visible to every session
DbState == [inventory |-> inventory, orders |-> orders,
            transactions |-> transactions, order_items |-> order_items,
            transaction_items |-> transaction_items]

\* ---- the cart (pos.py section 2) -----------------------------------------
CartQty(c) == SumSeq([i \in 1..Len(c) |-> c[i].qty])

\* uuid4 for a new line: an identifier no line of the cart carries
NewCartId(c) == Min((1..(Len(c) + 1)) \ {c[i].cart_id : i \in 1..Len(c)})

\* an add that never looks for a matching line
add_to_cart_always_append(c, p, prod) ==
    Append(c, [cart_id |-> NewCartId(c),
               product_id |-> p,
               price_kes |-> Float(prod.unit_price_ksh),
               price_ugx |-> Float(prod.unit_price_ugx),
               qty |-> 1,
               pref |-> default_pref])

add_to_cart(c, p, prod) ==
    LET hit == {i \in 1..Len(c) : c[i].product_id = p /\ c[i].pref = default_pref}
    IN  IF hit # {}
        THEN [c EXCEPT ![Min(hit)].qty = @ + 1]
        ELSE Append(c, [cart_id |-> NewCartId(c),
                        product_id |-> p,
                        price_kes |-> Float(prod.unit_price_ksh),
                        price_ugx |-> Float(prod.unit_price_ugx),
                        qty |-> 1,
                        pref |-> default_pref])

RECURSIVE ConsolidateInto(_, _)
ConsolidateInto(rest, new_cart) ==
    IF rest = <<>> THEN new_cart
    ELSE LET item == Head(rest)
             hit == {i \in 1..Len(new_cart) :
                        /\ new_cart[i].product_id = item.product_id
                        /\ new_cart[i].pref = item.pref}
         IN  IF hit # {}
             THEN ConsolidateInto(Tail(rest),
                      [new_cart EXCEPT ![Min(hit)].qty = @ + item.qty])
             ELSE ConsolidateInto(Tail(rest), Append(new_cart, item))

\* a consolidation pass that merges nothing
consolidate_cart_keeps_all(c) == c

consolidate_cart(c) == ConsolidateInto(c, <<>>)

\* a preference change that drops the colliding lines without adding their
\* quantities
update_item_pref_drop_duplicate(c, cart_id, new_pref) ==
    LET hit == {i \in 1..Len(c) : c[i].cart_id = cart_id}
    IN  IF hit = {} THEN c
        ELSE SelectSeq([c EXCEPT ![Min(hit)].pref = new_pref],
                       LAMBDA item :
                           \/ item.cart_id = cart_id
                           \/ item.product_id # c[Min(hit)].product_id
                           \/ item.pref # new_pref)

update_item_pref(c, cart_id, new_pref) ==
    LET hit == {i \in 1..Len(c) : c[i].cart_id = cart_id}
    IN  consolidate_cart(IF hit # {} THEN [c EXCEPT ![Min(hit)].pref = new_pref]
                         ELSE c)

\* a removal of every line of the product the identified line carries
remove_from_cart_by_product(c, cart_id) ==
    SelectSeq(c, LAMBDA item :
        \A i \in 1..Len(c) : c[i].cart_id = cart_id =>
                                 c[i].product_id # item.product_id)

remove_from_cart(c, cart_id) == SelectSeq(c, LAMBDA item : item.cart_id # cart_id)

clear_cart == <<>>

\* ---- session and call frames ----------------------------------------------
NoInv == [p \in {} |-> 0]

IdleSess == [cashier_id |-> NoUser, curr |-> "", subtotal |-> 0,
             order |-> <<>>, tx |-> <<>>, oitems |-> <<>>, titems |-> <<>>,
             inv |-> NoInv, dirty |-> {}, locked |-> {}, i |-> 0]

EmptyDb == [inventory |-> NoInv, orders |-> <<>>, transactions |-> <<>>,
            order_items |-> <<>>, transaction_items |-> <<>>]

\* res: "none" (no call), "running", "ok" (returned True), "fail" (returned
\* False); cause: why it failed and at: the step it failed in; preCart/preDb:
\* cart and committed rows at entry; oid/tid: the ids of the Order and the
\* Transaction row the call flushed (0: none); foreign: another till
\* committed since entry; overlap: another till was inside process_checkout
\* meanwhile
NoCall == [res |-> "none", cause |-> "", at |-> "", preCart |-> <<>>,
           preDb |-> EmptyDb, oid |-> 0, tid |-> 0,
           foreign |-> FALSE, overlap |-> FALSE]

InCheckout == {"order", "txn", "items", "commit"}

\* name: "none", "add", "pref", "remove" or "clear"; pre: the cart the
\* operation was called on; product_id / cart_id / pref: its arguments
NoOp == [name |-> "none", pre |-> <<>>, product_id |-> 0, cart_id |-> 0,
         pref |-> ""]

\* a price lookup that ignores the selected currency
PriceOf_always_kes(item, curr) == item.price_kes

\* price_{curr.lower()} of a cart line
PriceOf(item, curr) == IF curr = "KES" THEN item.price_kes ELSE item.price_ugx

\* sum(item['qty'] * item[curr_key] for item in cart)
CartSubtotal(c, curr) == SumSeq([i \in 1..Len(c) |-> c[i].qty * PriceOf(c[i], curr)])

\* ---- process_checkout (pos.py section 3) -----------------------------------
\* str(uuid.uuid4())[:8]: the draw is either a reference already in use or
\* one not in use; references not in use are interchangeable, the least
\* stands for them
RefDraws(used) ==
    (used \cap Refs) \cup (IF Refs \ used = {} THEN {} ELSE {Min(Refs \ used)})

\* a check that lets every cart through
CartIsEmpty_never(c) == FALSE

\* `if not st.session_state.cart`
CartIsEmpty(c) == c = <<>>

\* a lookup without the role filter
CashierRows_any_user(us) == us

\* session.query(User).filter_by(role="cashier"): the rows .first() may return
CashierRows(us) == {u \in us : u.role = "cashier"}

\* a unit price read from the products table at checkout
UnitPrice_live(item, curr) ==
    IF curr = "KES" THEN products[item.product_id].unit_price_ksh
    ELSE products[item.product_id].unit_price_ugx

\* Decimal(item[curr_key]) stored in unit_price NUMERIC(12,2)
UnitPrice(item, curr) == Numeric2(PriceOf(item, curr))

\* a line total that forgets the quantity
LineTotal_unit_only(item, curr) == Numeric2(PriceOf(item, curr))

\* quantity * unit_price stored in line_total NUMERIC(14,2)
LineTotal(item, curr) == Numeric2(item.qty * PriceOf(item, curr))

\* an Order created at the start of the lifecycle
NewOrder_placed(id, order_ref, curr, cashier_id, subtotal) ==
    [id |-> id, order_number |-> order_ref, currency |-> curr,
     status |-> "placed",
     placed_by_id |-> cashier_id, served_by_id |-> NoUser,
     cleared_by_id |-> NoUser,
     subtotal |-> Numeric2(subtotal), tax_total |-> 0, discount_total |-> 0,
     grand_total |-> Numeric2(subtotal)]

NewOrder(id, order_ref, curr, cashier_id, subtotal) ==
    [id |-> id, order_number |-> order_ref, currency |-> curr,
     status |-> "cleared",
     placed_by_id |-> cashier_id, served_by_id |-> cashier_id,
     cleared_by_id |-> cashier_id,
     subtotal |-> Numeric2(subtotal), tax_total |-> 0, discount_total |-> 0,
     grand_total |-> Numeric2(subtotal)]

\* a Transaction whose totals are left at the column default
NewTransaction_default_totals(id, txn_ref, order_id, curr, cashier_id, subtotal) ==
    [id |-> id, receipt_number |-> txn_ref, order_id |-> order_id,
     cashier_id |-> cashier_id, currency |-> curr, status |-> "completed",
     subtotal |-> 0, tax_total |-> 0, discount_total |-> 0,
     grand_total |-> 0]

NewTransaction(id, txn_ref, order_id, curr, cashier_id, subtotal) ==
    [id |-> id, receipt_number |-> txn_ref, order_id |-> order_id,
     cashier_id |-> cashier_id, currency |-> curr, status |-> "completed",
     subtotal |-> Numeric2(subtotal), tax_total |-> 0, discount_total |-> 0,
     grand_total |-> Numeric2(subtotal)]

NewOrderItem(order_id, item, curr) ==
    [order_id |-> order_id, product_id |-> item.product_id,
     quantity |-> item.qty, unit_price |-> UnitPrice(item, curr),
     line_total |-> LineTotal(item, curr)]

NewTransactionItem(transaction_id, item, curr) ==
    [transaction_id |-> transaction_id, product_id |-> item.product_id,
     quantity |-> item.qty, unit_price |-> UnitPrice(item, curr),
     line_total |-> LineTotal(item, curr)]

\* a query that reads the committed row each time, whatever the session holds
InventoryRows_committed(s_inv, db_inv, p) ==
    IF p \in DOMAIN db_inv
    THEN [q \in DOMAIN s_inv \cup {p} |-> IF q = p THEN db_inv[p] ELSE s_inv[q]]
    ELSE s_inv

\* session.query(Inventory).filter_by(product_id=p).first(): the Inventory
\* objects of the session afterwards: the object of the identity map if it
\* holds the row, else the committed row (none if the table has none)
InventoryRows(s_inv, db_inv, p) ==
    IF p \in DOMAIN s_inv THEN s_inv
    ELSE IF p \in DOMAIN db_inv
    THEN [q \in DOMAIN s_inv \cup {p} |-> IF q = p THEN db_inv[p] ELSE s_inv[q]]
    ELSE s_inv

\* a column that stores a negative quantity as zero
QuantityOnHand_floor_zero(v) == IF v < 0 THEN 0 ELSE v

\* inventory.quantity_on_hand, NUMERIC(12,3) with no CHECK constraint: the
\* column stores the value it is given
QuantityOnHand(v) == v

\* a stock step that finds no row, whatever the query returned
RowFound_never(loaded, p) == FALSE

\* `if inv:` the query returned a row
RowFound(loaded, p) == p \in DOMAIN loaded

\* a deduction of one unit per line
Deduct_one_per_line(quantity_on_hand, item) == quantity_on_hand - 1

\* inv.quantity_on_hand -= Decimal(quantity)
Deduct(quantity_on_hand, item) == quantity_on_hand - item.qty

\* rows of the inventory table the session has written (UPDATE flushed or
\* still pending in the unit of work)
Written(s) == s.locked \cup s.dirty

\* session.commit(): the flushed and pending rows become the committed rows
session_commit(db, s) ==
    [inventory |-> [p \in DOMAIN db.inventory |->
                        IF p \in Written(s) THEN s.inv[p] ELSE db.inventory[p]],
     orders |-> db.orders \o s.order,
     transactions |-> db.transactions \o s.tx,
     order_items |-> db.order_items \o s.oitems,
     transaction_items |-> db.transaction_items \o s.titems]

\* a rollback that leaves the flushed Order row behind
session_rollback_keeps_order(db, s) == [db EXCEPT !.orders = db.orders \o s.order]

\* session.rollback(): nothing of the session reaches the committed rows
session_rollback(db, s) == db

\* a handler that lets a lost connection reach the caller
ExceptResult_reraise(cause) == IF cause = "io" THEN "raised" ELSE "fail"

\* `except Exception`: whatever was raised, the call returns False
ExceptResult(cause) == "fail"

\* a checkout that clears the cart on every return
CartAfterCheckout_always_clear(c, ok) == clear_cart

\* the cart when process_checkout returns: clear_cart() only after commit
CartAfterCheckout(c, ok) == IF ok THEN clear_cart ELSE c

SetDb(d) ==
    /\ inventory' = d.inventory
    /\ orders' = d.orders
    /\ transactions' = d.transactions
    /\ order_items' = d.order_items
    /\ transaction_items' = d.transaction_items

\* nobody is logged in at the till
NoStaff == [id |-> NoUser, role |-> ""]

\* the back-office pages have nothing pending (product: the Product row the
\* session of the inventory page has flushed and not committed, 0 for none;
\* settings_session: the page run that drew the current screen got a
\* database session inside show_settings_page)
NoOffice == [product |-> 0, settings_session |-> FALSE]

\* ---- Init --------------------------------------------------------------------
Init ==
    /\ users \in {UserPool, {u \in UserPool : u.role # "cashier"}}
    /\ products = [p \in Products |-> [unit_price_ksh |-> PriceKshCents(p),
                                       unit_price_ugx |-> PriceUgxCents(p)]]
    /\ inventory = [p \in Products |-> InitStock]
    /\ inv0 = inventory
    /\ orders = <<>> /\ transactions = <<>>
    /\ order_items = <<>> /\ transaction_items = <<>>
    /\ seq_orders = 0 /\ seq_txns = 0
    /\ cart = [t \in Terminals |-> <<>>]
    /\ currency_code = [t \in Terminals |-> InitialCurrency]
    /\ user_id = [t \in Terminals |-> NoUser]
    /\ pc = [t \in Terminals |-> "idle"]
    /\ sess = [t \in Terminals |-> IdleSess]
    /\ call = [t \in Terminals |-> NoCall]
    /\ op = [t \in Terminals |-> NoOp]
    /\ current_user = [t \in Terminals |-> NoStaff]
    /\ selection = [t \in Terminals |-> "Login"]
    /\ office = NoOffice

\* the tills and the back office before anything was done
InitTills ==
    /\ cart = [t \in Terminals |-> <<>>]
    /\ currency_code = [t \in Terminals |-> InitialCurrency]
    /\ user_id = [t \in Terminals |-> NoUser]
    /\ pc = [t \in Terminals |-> "idle"]
    /\ sess = [t \in Terminals |-> IdleSess]
    /\ call = [t \in Terminals |-> NoCall]
    /\ op = [t \in Terminals |-> NoOp]
    /\ current_user = [t \in Terminals |-> NoStaff]
    /\ selection = [t \in Terminals |-> "Login"]
    /\ office = NoOffice

\* no Order was ever written
InitOrders ==
    /\ orders = <<>> /\ transactions = <<>>
    /\ order_items = <<>> /\ transaction_items = <<>>
    /\ seq_orders = 0 /\ seq_txns = 0

\* the cart-only specification starts from any stock: a product is in
\* stock, sold out or without an Inventory row
InitCart ==
    /\ users = UserPool
    /\ products = [p \in Products |-> [unit_price_ksh |-> PriceKshCents(p),
                                       unit_price_ugx |-> PriceUgxCents(p)]]
    /\ inventory \in UNION {[S -> {0, InitStock}] : S \in SUBSET Products}
    /\ inv0 = inventory
    /\ InitOrders
    /\ InitTills

\* stock = p.inventory.quantity_on_hand if p.inventory else 0
GridStock(inv, p) == IF p \in DOMAIN inv THEN inv[p] ELSE 0

\* a grid that disables no button
is_oos_never(stock) == FALSE

\* is_oos = stock <= 0: the button is disabled
is_oos(stock) == stock <= 0

\* ---- cart actions (one page run each) ---------------------------------------
\* rec: whether the operation is recorded in op (the cart-only
\* specification, which also fills the cart further)
\* render_header: the radio writes the selected currency
SelectCurrency(t) ==
    /\ pc[t] = "idle"
    /\ \E c \in CurrencyOptions :
          /\ c # currency_code[t]
          /\ currency_code' = [currency_code EXCEPT ![t] = c]
    /\ UNCHANGED <<dbVars, cart, user_id, officeVars, pc, sess, call, op>>

\* render_product_grid: the button of a product in stock calls add_to_cart
AddToCart(t, rec) ==
    /\ pc[t] = "idle"
    /\ CartQty(cart[t]) < (IF rec THEN MaxCartQty ELSE MaxQty)
    /\ \E p \in DOMAIN products :
          /\ ~is_oos(GridStock(inventory, p))
          /\ cart' = [cart EXCEPT ![t] = add_to_cart(@, p, products[p])]
          /\ op' = IF rec
                   THEN [op EXCEPT ![t] = [NoOp EXCEPT !.name = "add",
                                                       !.pre = cart[t],
                                                       !.product_id = p]]
                   ELSE op
    /\ UNCHANGED <<dbVars, currency_code, user_id, officeVars, pc, sess, call>>

\* the preference selectbox of a line changed: on_change callback
UpdateItemPref(t, rec) ==
    /\ pc[t] = "idle"
    /\ \E i \in 1..Len(cart[t]) : \E new_pref \in Prefs :
          /\ new_pref # cart[t][i].pref
          /\ cart' = [cart EXCEPT ![t] =
                         update_item_pref(@, cart[t][i].cart_id, new_pref)]
          /\ op' = IF rec
                   THEN [op EXCEPT ![t] = [NoOp EXCEPT !.name = "pref",
                                                       !.pre = cart[t],
                                                       !.cart_id = cart[t][i].cart_id,
                                                       !.pref = new_pref]]
                   ELSE op
    /\ UNCHANGED <<dbVars, currency_code, user_id, officeVars, pc, sess, call>>

\* the remove button of a line (lines 345-347), or a call with an identifier
\* no line carries
RemoveFromCart(t, rec) ==
    /\ pc[t] = "idle"
    /\ \E cart_id \in {cart[t][i].cart_id : i \in 1..Len(cart[t])}
                       \cup {NewCartId(cart[t])} :
          /\ cart' = [cart EXCEPT ![t] = remove_from_cart(@, cart_id)]
          /\ op' = IF rec
                   THEN [op EXCEPT ![t] = [NoOp EXCEPT !.name = "remove",
                                                       !.pre = cart[t],
                                                       !.cart_id = cart_id]]
                   ELSE op
    /\ UNCHANGED <<dbVars, currency_code, user_id, officeVars, pc, sess, call>>

ClearCart(t, rec) ==
    /\ pc[t] = "idle"
    /\ cart[t] # <<>>
    /\ cart' = [cart EXCEPT ![t] = clear_cart]
    /\ op' = IF rec
             THEN [op EXCEPT ![t] = [NoOp EXCEPT !.name = "clear", !.pre = cart[t]]]
             ELSE op
    /\ UNCHANGED <<dbVars, currency_code, user_id, officeVars, pc, sess, call>>


\* ---- process_checkout, step by step --------------------------------------
\* every database round trip is one step; a till returns to its caller in
\* pc = "returned" and the page run ends in Rerun

\* another till that is inside a call learns it ran alongside t
MarkOverlap(t, entry) ==
    [u \in Terminals |->
        IF u = t THEN entry
        ELSE IF pc[u] \in InCheckout THEN [call[u] EXCEPT !.overlap = TRUE]
        ELSE call[u]]

\* lines 158-180: the empty-cart check, the cashier and the subtotal.  The
\* session of this page run has rendered the grid (p.inventory of every
\* product); its identity map is weak, so the Inventory objects read there
\* are either still in it (retained) or read again by the checkout query.
CheckoutStart(t) ==
    /\ pc[t] = "idle"
    /\ LET entry == [NoCall EXCEPT !.res = "running", !.preCart = cart[t],
                                   !.preDb = DbState,
                                   !.overlap = \E u \in Terminals \ {t} :
                                                   pc[u] \in InCheckout]
       IN
       \/ /\ CartIsEmpty(cart[t])
          /\ pc' = [pc EXCEPT ![t] = "returned"]
          /\ call' = [call EXCEPT ![t] = [entry EXCEPT !.res = "fail",
                                                       !.cause = "empty",
                                                       !.at = "start"]]
          /\ UNCHANGED sess
       \/ /\ ~CartIsEmpty(cart[t])
          /\ user_id[t] = NoUser
          /\ CashierRows(users) = {}
          /\ pc' = [pc EXCEPT ![t] = "returned"]
          /\ call' = [call EXCEPT ![t] = [entry EXCEPT !.res = "fail",
                                                       !.cause = "nocashier",
                                                       !.at = "start"]]
          /\ UNCHANGED sess
       \/ /\ ~CartIsEmpty(cart[t])
          /\ user_id[t] = NoUser
          /\ pc' = [pc EXCEPT ![t] = "returned"]
          /\ call' = [call EXCEPT ![t] = [entry EXCEPT !.res = ExceptResult("io"),
                                                       !.cause = "io",
                                                       !.at = "start"]]
          /\ UNCHANGED sess
       \/ /\ ~CartIsEmpty(cart[t])
          /\ seq_orders + Cardinality({u \in Terminals : pc[u] = "order"})
                < MaxOrders
          /\ \E cashier_id \in IF user_id[t] # NoUser THEN {user_id[t]}
                               ELSE {u.id : u \in CashierRows(users)} :
             \E retained \in BOOLEAN :
                sess' = [sess EXCEPT ![t] =
                    [IdleSess EXCEPT
                        !.cashier_id = cashier_id,
                        !.curr = currency_code[t],
                        !.subtotal = CartSubtotal(cart[t], currency_code[t]),
                        !.inv = IF retained THEN inventory ELSE NoInv]]
          /\ pc' = [pc EXCEPT ![t] = "order"]
          /\ call' = MarkOverlap(t, entry)
    /\ UNCHANGED <<dbVars, cart, currency_code, user_id, officeVars, op>>

\* the except branch (lines 244-247): rollback and return False
Failed(t, cause) ==
    /\ SetDb(session_rollback(DbState, sess[t]))
    /\ sess' = [sess EXCEPT ![t] = IdleSess]
    /\ pc' = [pc EXCEPT ![t] = "returned"]
    /\ call' = [call EXCEPT ![t] = [@ EXCEPT !.res = ExceptResult(cause),
                                              !.cause = cause, !.at = pc[t]]]
    /\ cart' = [cart EXCEPT ![t] = CartAfterCheckout(@, FALSE)]

\* lines 182-194: Order(...), session.add, session.flush (the INSERT).  The
\* enum column rejects a currency outside models.Currency; a committed row
\* with the same order_number violates the unique constraint; an uncommitted
\* one of another session makes the INSERT wait.
CreateOrder(t) ==
    /\ pc[t] = "order"
    /\ \E order_ref \in RefDraws({o.order_number : o \in Range(orders)} \cup
                    UNION {{o.order_number : o \in Range(sess[u].order)} :
                              u \in Terminals}) :
          /\ \A u \in Terminals \ {t} :
                \A o \in Range(sess[u].order) : o.order_number # order_ref
          /\ IF sess[t].curr \notin Currency
             THEN /\ Failed(t, "enum")
                  /\ UNCHANGED <<seq_orders>>
             ELSE IF \E o \in Range(orders) : o.order_number = order_ref
             THEN /\ Failed(t, "unique")
                  /\ seq_orders' = seq_orders + 1
             ELSE /\ sess' = [sess EXCEPT ![t].order =
                        <<NewOrder(seq_orders + 1, order_ref, sess[t].curr,
                                   sess[t].cashier_id, sess[t].subtotal)>>]
                  /\ seq_orders' = seq_orders + 1
                  /\ pc' = [pc EXCEPT ![t] = "txn"]
                  /\ call' = [call EXCEPT ![t].oid = seq_orders + 1]
                  /\ UNCHANGED <<inventory, orders, transactions, order_items,
                                 transaction_items, cart>>
    /\ UNCHANGED <<users, products, seq_txns, inv0, currency_code, user_id, officeVars, op>>

\* lines 196-209: Transaction(...), session.add, session.flush.  The call
\* passes amount_paid and change_returned; models.Transaction declares
\* neither, and the declarative constructor raises TypeError for a keyword
\* the class lacks.  pos.py takes the class from db.models: with a class that
\* has the two attributes the construction succeeds.
CreateTxn(t) ==
    /\ pc[t] = "txn"
    /\ \/ /\ Failed(t, "ctor")
          /\ UNCHANGED seq_txns
       \/ \E txn_ref \in RefDraws({x.receipt_number : x \in Range(transactions)} \cup
                    UNION {{x.receipt_number : x \in Range(sess[u].tx)} :
                              u \in Terminals}) :
             /\ \A u \in Terminals \ {t} :
                   \A x \in Range(sess[u].tx) : x.receipt_number # txn_ref
             /\ IF \E x \in Range(transactions) : x.receipt_number = txn_ref
                THEN /\ Failed(t, "unique")
                     /\ seq_txns' = seq_txns + 1
                ELSE /\ sess' = [sess EXCEPT ![t].tx =
                           <<NewTransaction(seq_txns + 1, txn_ref,
                                 sess[t].order[1].id, sess[t].curr,
                                 sess[t].cashier_id, sess[t].subtotal)>>,
                                              ![t].i = 1]
                     /\ seq_txns' = seq_txns + 1
                     /\ pc' = [pc EXCEPT ![t] = IF Len(cart[t]) = 0
                                                THEN "commit" ELSE "items"]
                     /\ call' = [call EXCEPT ![t].tid = seq_txns + 1]
                     /\ UNCHANGED <<inventory, orders, transactions,
                                    order_items, transaction_items, cart>>
    /\ UNCHANGED <<users, products, seq_orders, inv0, currency_code, user_id, officeVars,
                   op>>

\* a flush of UPDATE inventory waits while another session holds the row
CanFlush(t) ==
    \A u \in Terminals \ {t} : sess[u].locked \cap sess[t].dirty = {}

\* lines 212-236, one pass of the loop: the two items are added, the
\* Inventory query autoflushes what is pending, and the row (the object of
\* the identity map if there is one) is decremented in memory
ProcessItem(t) ==
    /\ pc[t] = "items"
    /\ CanFlush(t)
    /\ LET s == sess[t]
           item == cart[t][s.i]
           p == item.product_id
           loaded == InventoryRows(s.inv, inventory, p)
           found == RowFound(loaded, p)
       IN  /\ sess' = [sess EXCEPT ![t] =
                  [s EXCEPT
                     !.oitems = Append(@, NewOrderItem(s.order[1].id, item, s.curr)),
                     !.titems = Append(@, NewTransactionItem(s.tx[1].id, item, s.curr)),
                     !.locked = s.locked \cup s.dirty,
                     !.dirty = IF found THEN {p} ELSE {},
                     !.inv = IF found
                             THEN [loaded EXCEPT ![p] =
                                      QuantityOnHand(Deduct(@, item))]
                             ELSE loaded,
                     !.i = s.i + 1]]
           /\ pc' = [pc EXCEPT ![t] = IF s.i = Len(cart[t]) THEN "commit"
                                      ELSE "items"]
    /\ UNCHANGED <<dbVars, cart, currency_code, user_id, officeVars, call, op>>

\* lines 238-242: session.commit(), clear_cart(), return True
Commit(t) ==
    /\ pc[t] = "commit"
    /\ CanFlush(t)
    /\ SetDb(session_commit(DbState, sess[t]))
    /\ sess' = [sess EXCEPT ![t] = IdleSess]
    /\ cart' = [cart EXCEPT ![t] = CartAfterCheckout(@, TRUE)]
    /\ pc' = [pc EXCEPT ![t] = "returned"]
    /\ call' = [u \in Terminals |->
                   IF u = t THEN [call[t] EXCEPT !.res = "ok"]
                   ELSE IF call[u].res # "none"
                   THEN [call[u] EXCEPT !.foreign = TRUE]
                   ELSE call[u]]
    /\ UNCHANGED <<users, products, seq_orders, seq_txns, inv0, currency_code,
                   user_id, officeVars, op>>

\* any statement of the transaction may fail in the persistence layer
\* (connection lost, deadlock victim): line 244
Fail(t) ==
    /\ pc[t] \in InCheckout
    /\ Failed(t, "io")
    /\ UNCHANGED <<users, products, seq_orders, seq_txns, inv0, currency_code,
                   user_id, officeVars, op>>

\* render_cart_section lines 361-363 and the end of the page run: the
\* session of the run is closed and the next run starts
Rerun(t) ==
    /\ pc[t] = "returned"
    /\ pc' = [pc EXCEPT ![t] = "idle"]
    /\ call' = [call EXCEPT ![t] = NoCall]
    /\ sess' = [sess EXCEPT ![t] = IdleSess]
    /\ UNCHANGED <<dbVars, cart, currency_code, user_id, officeVars, op>>

\* ---- other clients of the database ------------------------------------------
\* the prices a product is given when it is repriced
RepricedKshCents(p) == PriceKshCents(p) + 2500
RepricedUgxCents(p) == PriceUgxCents(p) + 7500

\* another client (the app has no price form) changes the list price of a
\* product, between two page runs of the tills; one product is repriced
PriceChanged ==
    /\ \A t \in Terminals : pc[t] = "idle"
    /\ \A q \in DOMAIN products : products[q].unit_price_ksh = PriceKshCents(q)
    /\ \E p \in DOMAIN products :
          /\ products' = [products EXCEPT
                              ![p] = [unit_price_ksh |-> RepricedKshCents(p),
                                      unit_price_ugx |-> RepricedUgxCents(p)]]
    /\ UNCHANGED <<users, inventory, orders, transactions, order_items,
                   transaction_items, seq_orders, seq_txns, inv0, cart,
                   currency_code, user_id, pc, sess, call, op, officeVars>>

\* another client deletes the Inventory row of a product, between two page
\* runs of the tills; one row is deleted
InventoryRowDeleted ==
    /\ \A t \in Terminals : pc[t] = "idle"
    /\ DOMAIN inventory = DOMAIN products
    /\ \E p \in DOMAIN inventory :
          inventory' = [q \in DOMAIN inventory \ {p} |-> inventory[q]]
    /\ UNCHANGED <<users, products, orders, transactions, order_items,
                   transaction_items, seq_orders, seq_txns, inv0, cart,
                   currency_code, user_id, pc, sess, call, op, officeVars>>

\* ---- app.py and the back-office pages ------------------------------------------
\* models.UserRole
UserRole == {"admin", "manager", "cashier", "waiter"}

\* the accounts the settings page may still create, and the roles given
\* to them: one whose menu offers Settings and one whose menu does not
NewStaffIds == {4}
NewStaffRoles == {"manager", "waiter"}

\* app.py: the pages of the navigation radio for a role
menu_options(role) ==
    IF role \in {"waiter", "cashier"}
    THEN {"POS Till", "Active Orders"}
    ELSE {"Dashboard", "POS Till", "Active Orders", "Inventory", "Settings"}

\* st.radio starts on the first option of the list
FirstOption(role) ==
    IF role \in {"waiter", "cashier"} THEN "POS Till" ELSE "Dashboard"

\* a settings page without its role check
SettingsAllowed_any_role(role) == TRUE

\* show_settings_page: it returns before get_session() unless the role of
\* current_user is "admin"
SettingsAllowed(role) == role = "admin"

\* the page the selection draws: show_settings_page gets a session only
\* behind its role check
SettingsSession(page, role) == page = "Settings" /\ SettingsAllowed(role)

\* the state of the pos page
tillVars == <<cart, currency_code, user_id, pc, sess, call, op>>

\* login(email, password): an active account with the right password fills
\* current_user with id and role; the rerun draws the first page of the menu
Login(t) ==
    /\ pc[t] = "idle"
    /\ office.product = 0
    /\ current_user[t] = NoStaff
    /\ \E u \in users :
          /\ u.is_active
          /\ current_user' = [current_user EXCEPT
                                 ![t] = [id |-> u.id, role |-> u.role]]
          /\ selection' = [selection EXCEPT ![t] = FirstOption(u.role)]
          /\ office' = [office EXCEPT !.settings_session =
                           SettingsSession(FirstOption(u.role), u.role)]
    /\ UNCHANGED <<dbVars, tillVars>>

\* logout(): current_user is None and the login form is drawn again
Logout(t) ==
    /\ pc[t] = "idle"
    /\ office.product = 0
    /\ current_user[t] # NoStaff
    /\ current_user' = [current_user EXCEPT ![t] = NoStaff]
    /\ selection' = [selection EXCEPT ![t] = "Login"]
    /\ office' = [office EXCEPT !.settings_session = FALSE]
    /\ UNCHANGED <<dbVars, tillVars>>

\* the navigation radio: one of the options of the role is selected and its
\* page is drawn
SelectMenu(t) ==
    /\ pc[t] = "idle"
    /\ office.product = 0
    /\ current_user[t] # NoStaff
    /\ \E page \in menu_options(current_user[t].role) \ {selection[t]} :
          /\ selection' = [selection EXCEPT ![t] = page]
          /\ office' = [office EXCEPT !.settings_session =
                           SettingsSession(page, current_user[t].role)]
    /\ UNCHANGED <<dbVars, tillVars, current_user>>

\* settings.py "Create User": no account has the e-mail yet; User(...),
\* session.add, session.commit (is_active defaults to True)
CreateUser(t) ==
    /\ pc[t] = "idle"
    /\ selection[t] = "Settings"
    /\ SettingsAllowed(current_user[t].role)
    /\ \E id \in NewStaffIds \ {u.id : u \in users} : \E role \in NewStaffRoles :
          users' = users \cup {[id |-> id, role |-> role, is_active |-> TRUE]}
    /\ office' = [office EXCEPT !.settings_session = TRUE]
    /\ UNCHANGED <<products, inventory, orders, transactions, order_items,
                   transaction_items, seq_orders, seq_txns, inv0, tillVars,
                   current_user, selection>>

\* an Order or a Transaction row refers to the account (foreign keys of
\* orders and transactions on users.id)
Referenced(id) ==
    \/ \E o \in Range(orders) : id \in {o.placed_by_id, o.served_by_id,
                                        o.cleared_by_id}
    \/ \E x \in Range(transactions) : x.cashier_id = id

\* settings.py "Delete User": any account but the one logged in;
\* session.delete, session.commit (the foreign keys refuse an account that
\* rows refer to)
DeleteUser(t) ==
    /\ pc[t] = "idle"
    /\ selection[t] = "Settings"
    /\ SettingsAllowed(current_user[t].role)
    /\ \E u \in users :
          /\ u.id # current_user[t].id
          /\ ~Referenced(u.id)
          /\ users' = users \ {u}
    /\ office' = [office EXCEPT !.settings_session = TRUE]
    /\ UNCHANGED <<products, inventory, orders, transactions, order_items,
                   transaction_items, seq_orders, seq_txns, inv0, tillVars,
                   current_user, selection>>

\* the list prices of a new product
NewProduct(p) == [unit_price_ksh |-> PriceKshCents(p),
                  unit_price_ugx |-> PriceUgxCents(p)]

\* inventory.py "Save Product", lines 183-197: no product has the SKU;
\* Product(...), session.add, session.flush: the row is flushed and not yet
\* committed
SaveProductFlush(t) ==
    /\ pc[t] = "idle"
    /\ selection[t] = "Inventory"
    /\ office.product = 0
    /\ \E p \in Products \ DOMAIN products :
          office' = [office EXCEPT !.product = p]
    /\ UNCHANGED <<dbVars, tillVars, current_user, selection>>

\* a form that saves the Product alone
NewInventory_omitted(inv, p, stock) == inv

\* Inventory(product_id=new_prod.id, quantity_on_hand=initial_stock),
\* session.add: the row is inserted by the commit that follows
NewInventory(inv, p, stock) ==
    [q \in DOMAIN inv \cup {p} |-> IF q = p THEN stock ELSE inv[q]]

\* inventory.py lines 199-205: Inventory(...), session.add, session.commit:
\* the Product and its Inventory row are committed by one transaction
SaveProductCommit(t) ==
    /\ office.product # 0
    /\ LET p == office.product IN
       \E stock \in {0, InitStock} :
          /\ products' = [q \in DOMAIN products \cup {p} |->
                             IF q = p THEN NewProduct(p) ELSE products[q]]
          /\ inventory' = NewInventory(inventory, p, stock)
          /\ inv0' = NewInventory(inv0, p, stock)
    /\ office' = [office EXCEPT !.product = 0]
    /\ UNCHANGED <<users, orders, transactions, order_items, transaction_items,
                   seq_orders, seq_txns, tillVars, current_user, selection>>

\* session.commit() raises (line 205): the failed flush has rolled the
\* transaction back; next(session_gen) in the finally clause then commits a
\* session that needs a rollback, which raises again and get_session rolls
\* back and closes: neither row is kept
SaveProductFail(t) ==
    /\ office.product # 0
    /\ office' = [office EXCEPT !.product = 0]
    /\ UNCHANGED <<dbVars, tillVars, current_user, selection>>

\* the products seed_database inserts
SeedProducts == {1}

\* seed_database, lines 156-188: for every row whose SKU no product has,
\* Product(...), flush, Inventory(...); one session.commit() for all of
\* them (a failure rolls all of them back and changes nothing)
SeedDatabase ==
    /\ office.product \notin SeedProducts
    /\ LET new == SeedProducts \ DOMAIN products IN
          /\ new # {}
          /\ products' = [q \in DOMAIN products \cup new |->
                             IF q \in new THEN NewProduct(q) ELSE products[q]]
          /\ inventory' = [q \in DOMAIN inventory \cup new |->
                              IF q \in new THEN InitStock ELSE inventory[q]]
          /\ inv0' = [q \in DOMAIN inv0 \cup new |->
                         IF q \in new THEN InitStock ELSE inv0[q]]
    /\ UNCHANGED <<users, orders, transactions, order_items, transaction_items,
                   seq_orders, seq_txns, tillVars, officeVars>>

\* get_session after its yield returned: session.commit()
get_session_resumed(db, s) == session_commit(db, s)

\* manage_db_session, the finally clause: next(session_gen) resumes
\* get_session after its yield, whether the body raised or not
manage_db_session_exit(db, s) == get_session_resumed(db, s)

\* an exception that `except Exception` does not catch (a BaseException:
\* KeyboardInterrupt, SystemExit, a script-control exception) leaves the body
\* of `with manage_db_session()` while the session holds the flushed rows of
\* the checkout: the finally clause of the wrapper runs, then the session is
\* closed and the exception reaches the caller
BodyRaises(t) ==
    /\ pc[t] \in {"txn", "items", "commit"}
    /\ CanFlush(t)
    /\ SetDb(manage_db_session_exit(DbState, sess[t]))
    /\ sess' = [sess EXCEPT ![t] = IdleSess]
    /\ pc' = [pc EXCEPT ![t] = "returned"]
    /\ call' = [u \in Terminals |->
                   IF u = t THEN [call[t] EXCEPT !.res = "raised",
                                                 !.cause = "base",
                                                 !.at = pc[t]]
                   ELSE IF call[u].res # "none"
                   THEN [call[u] EXCEPT !.foreign = TRUE]
                   ELSE call[u]]
    /\ UNCHANGED <<users, products, seq_orders, seq_txns, inv0, cart,
                   currency_code, user_id, officeVars, op>>

\* ---- specifications -------------------------------------------------------
\* one till, the cart alone: every cart operation, recorded in op
NextCart ==
    \/ SelectCurrency(Till)
    \/ AddToCart(Till, TRUE)
    \/ UpdateItemPref(Till, TRUE)
    \/ RemoveFromCart(Till, TRUE)
    \/ ClearCart(Till, TRUE)

SpecCart == InitCart /\ [][NextCart]_vars

\* one till: every cart operation and the checkout
Next ==
    \/ SelectCurrency(Till)
    \/ AddToCart(Till, FALSE)
    \/ UpdateItemPref(Till, FALSE)
    \/ RemoveFromCart(Till, FALSE)
    \/ ClearCart(Till, FALSE)
    \/ CheckoutStart(Till)
    \/ CreateOrder(Till)
    \/ CreateTxn(Till)
    \/ ProcessItem(Till)
    \/ Commit(Till)
    \/ Fail(Till)
    \/ Rerun(Till)

Spec == Init /\ [][Next]_vars

\* two tills selling against the same inventory rows
AddToCartConc(t) ==
    /\ CartQty(cart[t]) < ConcMaxQty
    /\ AddToCart(t, FALSE)

NextConc ==
    \E t \in Terminals :
        \/ SelectCurrency(t)
        \/ AddToCartConc(t)
        \/ CheckoutStart(t)
        \/ CreateOrder(t)
        \/ CreateTxn(t)
        \/ ProcessItem(t)
        \/ Commit(t)
        \/ Fail(t)
        \/ Rerun(t)

InitConc ==
    /\ Init
    /\ users = UserPool

SpecConc == InitConc /\ [][NextConc]_vars

\* one till and the other clients of the database
NextExternal ==
    \/ SelectCurrency(Till)
    \/ AddToCart(Till, FALSE)
    \/ CheckoutStart(Till)
    \/ CreateOrder(Till)
    \/ CreateTxn(Till)
    \/ ProcessItem(Till)
    \/ Commit(Till)
    \/ Fail(Till)
    \/ Rerun(Till)
    \/ PriceChanged
    \/ InventoryRowDeleted

SpecExternal == InitConc /\ [][NextExternal]_vars

\* the catalogue is empty: no product was seeded or saved yet
InitOffice ==
    /\ users = UserPool
    /\ products = NoInv
    /\ inventory = NoInv
    /\ inv0 = inventory
    /\ InitOrders
    /\ InitTills

\* the settlements the back-office specification follows
CheckoutStartOffice(t) ==
    /\ seq_orders < OfficeMaxOrders
    /\ CheckoutStart(t)

\* one till of the app: login, menu, the back-office pages, the seeder and
\* the checkout of a small cart
NextOffice ==
    \/ Login(Till)
    \/ Logout(Till)
    \/ SelectMenu(Till)
    \/ CreateUser(Till)
    \/ DeleteUser(Till)
    \/ SaveProductFlush(Till)
    \/ SaveProductCommit(Till)
    \/ SaveProductFail(Till)
    \/ SeedDatabase
    \/ SelectCurrency(Till)
    \/ AddToCartConc(Till)
    \/ CheckoutStartOffice(Till)
    \/ CreateOrder(Till)
    \/ CreateTxn(Till)
    \/ ProcessItem(Till)
    \/ Commit(Till)
    \/ BodyRaises(Till)
    \/ Rerun(Till)

SpecOffice == InitOffice /\ [][NextOffice]_vars

\* ---- properties ------------------------------------------------------------
Returned(t) == pc[t] = "returned"

ItemsOfOrder(oid) == SelectSeq(order_items, LAMBDA it : it.order_id = oid)
ItemsOfTxn(tid) == SelectSeq(transaction_items, LAMBDA it : it.transaction_id = tid)
TxnsOfOrder(oid) == SelectSeq(transactions, LAMBDA x : x.order_id = oid)

SumLineTotals(items) == SumSeq([i \in 1..Len(items) |-> items[i].line_total])

\* units of product p recorded in the committed order items
SoldQty(p) ==
    SumSeq([i \in 1..Len(order_items) |->
               IF order_items[i].product_id = p THEN order_items[i].quantity
               ELSE 0])

ExpectedTotal(c, curr) ==
    SumSeq([i \in 1..Len(c) |-> c[i].qty * UnitPrice(c[i], curr)])

\* C2: successful settlement.  A call with a non-empty cart, a resolvable
\* cashier and no persistence-layer failure (lost connection, constraint
\* violation) returns True and has committed one Order whose subtotal and
\* grand_total are the sum of qty x unit price, with one Transaction of the
\* same grand_total.
C2_SettlementSucceeds ==
    \A t \in Terminals :
        (/\ Returned(t)
         /\ call[t].preCart # <<>>
         /\ (user_id[t] # NoUser \/ \E u \in users : u.role = "cashier")
         /\ call[t].cause \notin {"io", "unique"}) =>
            /\ call[t].res = "ok"
            /\ \E o \in Range(orders) :
                  /\ o.id = call[t].oid
                  /\ o.subtotal = ExpectedTotal(call[t].preCart, o.currency)
                  /\ o.grand_total = o.subtotal
                  /\ Len(ItemsOfOrder(o.id)) = Len(call[t].preCart)
                  /\ \E x \in Range(transactions) :
                        x.order_id = o.id /\ x.grand_total = o.grand_total

OneUnitOf(c, p) == Len(c) = 1 /\ c[1].product_id = p /\ c[1].qty = 1

C7_EmptyCart ==
    \A t \in Terminals :
        (Returned(t) /\ call[t].preCart = <<>>) =>
            /\ call[t].res = "fail"
            /\ call[t].oid = 0 /\ call[t].tid = 0
            /\ ~call[t].foreign => DbState = call[t].preDb
            /\ cart[t] = <<>>

\* C7 witness: a call with an empty cart has returned, rows being committed
C7_Witness ==
    \E t \in Terminals :
        /\ Returned(t) /\ call[t].preCart = <<>> /\ call[t].cause = "empty"
        /\ orders # <<>>

\* C8: no cashier.  A call with a non-empty cart, no staff identifier and no
\* user of role cashier returns False without flushing a row; the committed
\* rows are those at entry.
C8_NoCashier ==
    \A t \in Terminals :
        (/\ Returned(t)
         /\ call[t].preCart # <<>>
         /\ user_id[t] = NoUser
         /\ ~ \E u \in users : u.role = "cashier") =>
            /\ call[t].res = "fail"
            /\ call[t].oid = 0 /\ call[t].tid = 0
            /\ ~call[t].foreign => DbState = call[t].preDb

\* C8 witness: the cashier lookup found no row for a two-line cart
C8_Witness ==
    \E t \in Terminals :
        /\ Returned(t) /\ call[t].cause = "nocashier"
        /\ Len(call[t].preCart) = 2

\* C9: cart frame condition.  While process_checkout runs the cart is the
\* cart at entry; when it returns False the cart is still the cart at entry,
\* and when it returns True the cart is empty.
C9_CartFrame ==
    \A t \in Terminals :
        /\ pc[t] \in InCheckout => cart[t] = call[t].preCart
        /\ (Returned(t) /\ call[t].res = "fail") => cart[t] = call[t].preCart
        /\ (Returned(t) /\ call[t].res = "ok") =>
              (cart[t] = <<>> /\ call[t].preCart # <<>>)

\* C9 witness: a call failed after the Order and the Transaction were
\* flushed and left a two-line cart in place
C9_Witness ==
    \E t \in Terminals :
        /\ Returned(t) /\ call[t].res = "fail" /\ call[t].tid # 0
        /\ Len(cart[t]) = 2

\* C10: cart uniqueness.  Every cart holds at most one line per
\* (product_id, preference) pair.
C10_CartUnique ==
    \A t \in Terminals : \A i, j \in 1..Len(cart[t]) :
        i # j => <<cart[t][i].product_id, cart[t][i].pref>>
                    # <<cart[t][j].product_id, cart[t][j].pref>>

\* C10 witness: a cart with two lines of one product, which differ in their
\* preference
C10_Witness ==
    \E t \in Terminals : \E i, j \in 1..Len(cart[t]) :
        /\ i # j
        /\ cart[t][i].product_id = cart[t][j].product_id
        /\ cart[t][i].pref # cart[t][j].pref

\* ---- the settlement (Spec) ---------------------------------------------------
\* lines of cart c that carry product p with preference pref
LinesOf(c, p, pref) ==
    {i \in 1..Len(c) : c[i].product_id = p /\ c[i].pref = pref}

\* the call of till t has returned True
Settled(t) == Returned(t) /\ call[t].res = "ok"

\* units of product p in cart c
QtyOf(c, p) ==
    SumSeq([i \in 1..Len(c) |-> IF c[i].product_id = p THEN c[i].qty ELSE 0])

\* positions of the items of product p in a sequence of items
ItemsOfProduct(items, p) == {i \in 1..Len(items) : items[i].product_id = p}

\* cart c has a "Cold" and a "Warm" line of product p
ColdAndWarm(c, p) == LinesOf(c, p, "Cold") # {} /\ LinesOf(c, p, "Warm") # {}

Snapshot(item, code) == IF code = "UGX" THEN item.price_ugx ELSE item.price_kes

\* the code of the radio that was not selected
OtherCode(code) == IF code = "UGX" THEN "KES" ELSE "UGX"

Resolvable(t) ==
    IF user_id[t] # NoUser THEN {user_id[t]}
    ELSE {u.id : u \in {v \in users : v.role = "cashier"}}

C11_AddMergeOnMatch ==
    \A t \in Terminals :
        op[t].name = "add" =>
            LET pre == op[t].pre
                hit == LinesOf(pre, op[t].product_id, default_pref)
            IN  IF hit # {}
                THEN /\ Len(cart[t]) = Len(pre)
                     /\ \E i \in hit :
                           /\ cart[t][i] = [pre[i] EXCEPT !.qty = @ + 1]
                           /\ \A j \in 1..Len(pre) : j # i => cart[t][j] = pre[j]
                ELSE /\ Len(cart[t]) = Len(pre) + 1
                     /\ SubSeq(cart[t], 1, Len(pre)) = pre
                     /\ cart[t][Len(cart[t])].product_id = op[t].product_id
                     /\ cart[t][Len(cart[t])].pref = default_pref
                     /\ cart[t][Len(cart[t])].qty = 1

\* C11 witness: the same product added twice to an empty cart: one line of
\* quantity 2
C11_Witness ==
    \E t \in Terminals :
        /\ op[t].name = "add"
        /\ Len(op[t].pre) = 1 /\ op[t].pre[1].qty = 1
        /\ op[t].pre[1].product_id = op[t].product_id
        /\ Len(cart[t]) = 1 /\ cart[t][1].qty = 2

\* the line of the cart that carries cart_id
LineWithId(c, cart_id) == {i \in 1..Len(c) : c[i].cart_id = cart_id}

\* C12: update_item_pref merge.  After a line's preference is changed to the
\* preference of another line of the same product, one line carries that
\* (product, preference) pair, with the sum of the two quantities; the cart
\* is one line shorter and every other line is in it unchanged.
C12_PrefMerge ==
    \A t \in Terminals :
        op[t].name = "pref" =>
            LET pre == op[t].pre
            IN  \A i \in LineWithId(pre, op[t].cart_id) :
                \A j \in LinesOf(pre, pre[i].product_id, op[t].pref) \ {i} :
                    LET now == LinesOf(cart[t], pre[i].product_id, op[t].pref)
                    IN  /\ Cardinality(now) = 1
                        /\ \A k \in now : cart[t][k].qty = pre[i].qty + pre[j].qty
                        /\ Len(cart[t]) = Len(pre) - 1
                        /\ \A m \in 1..Len(pre) :
                              m \notin {i, j} =>
                                  \E k \in 1..Len(cart[t]) : cart[t][k] = pre[m]

\* C12 witness: a preference change merged two lines next to a line of
\* another product
C12_Witness ==
    \E t \in Terminals :
        /\ op[t].name = "pref"
        /\ Len(op[t].pre) = 3
        /\ Len(cart[t]) = 2
        /\ \E k \in 1..2 : cart[t][k].qty = 2 /\ cart[t][k].pref = op[t].pref

\* C18: default preference.  A line newly created by add_to_cart carries the
\* preference "Standard".
C18_DefaultStandard ==
    \A t \in Terminals :
        (op[t].name = "add" /\ Len(cart[t]) = Len(op[t].pre) + 1) =>
            cart[t][Len(cart[t])].pref = "Standard"

\* C19: remove_from_cart.  After remove_from_cart(cart_id) the cart is the
\* old cart without the one line that carried cart_id, the other lines
\* unchanged and in their order; if no line carried it the cart is the old
\* cart.
C19_RemoveExactlyOne ==
    \A t \in Terminals :
        op[t].name = "remove" =>
            LET pre == op[t].pre
                hit == LineWithId(pre, op[t].cart_id)
            IN  IF hit = {} THEN cart[t] = pre
                ELSE /\ Cardinality(hit) = 1
                     /\ Len(cart[t]) = Len(pre) - 1
                     /\ \A i \in hit : \A k \in 1..Len(cart[t]) :
                           cart[t][k] = IF k < i THEN pre[k] ELSE pre[k + 1]

\* C19 witness: the middle line of a three-line cart was removed
C19_Witness ==
    \E t \in Terminals :
        /\ op[t].name = "remove"
        /\ Len(op[t].pre) = 3
        /\ LineWithId(op[t].pre, op[t].cart_id) = {2}
        /\ Len(cart[t]) = 2

\* C29: sold-out gating.  add_to_cart is called for a product only if the
\* product has an Inventory row with quantity_on_hand > 0 (the stock does
\* not change in this specification, so the stock of the render is the
\* stock of the state).
C29_SoldOutGating ==
    \A t \in Terminals :
        op[t].name = "add" =>
            /\ op[t].product_id \in DOMAIN inventory
            /\ inventory[op[t].product_id] > 0

\* C29 witness: a product was added while another is sold out or has no
\* Inventory row
C29_Witness ==
    \E t \in Terminals : \E q \in Products :
        /\ op[t].name = "add"
        /\ q # op[t].product_id
        /\ (q \notin DOMAIN inventory \/ inventory[q] <= 0)

\* ---- prices and rows changed by other clients (SpecExternal) ----------------
\* the list price of product p now, in the column of a currency code
LivePrice(p, code) ==
    IF code = "UGX" THEN products[p].unit_price_ugx
    ELSE products[p].unit_price_ksh

NoRowLines(c, inv) == {i \in 1..Len(c) : c[i].product_id \notin DOMAIN inv}

C21_ClosedCurrency ==
    /\ InitialCurrency \in Currency
    /\ CurrencyOptions \subseteq Currency
    /\ \A t \in Terminals : currency_code[t] \in Currency

C25_ActiveFallbackCashier ==
    \A t \in Terminals :
        (user_id[t] = NoUser /\ sess[t].cashier_id # NoUser) =>
            \E u \in users :
                /\ u.id = sess[t].cashier_id
                /\ u.role = "cashier"
                /\ u.is_active

C27_RollbackOnError ==
    \A t \in Terminals :
        (Returned(t) /\ call[t].res = "raised" /\ ~call[t].foreign) =>
            /\ DbState = call[t].preDb
            /\ ~\E o \in Range(orders) : o.id = call[t].oid

HasRole(t, roles) == current_user[t] # NoStaff /\ current_user[t].role \in roles

\* an administrator has the settings page open at some till
AdminAtSettings ==
    \E t \in Terminals : HasRole(t, {"admin"}) /\ selection[t] = "Settings"

====
